---- MODULE Spec2Model ----
(***************************************************************************)
(* Model of rtmpy's RPC call correlation (rtmpy/rpc.py) and of the part of *)
(* the connection protocol (rtmpy/rtmp/__init__.py) that the call handlers *)
(* depend on.                                                              *)
(*                                                                         *)
(* One BaseCallHandler instance is modelled (lastCallId, activeCalls).     *)
(* Spec drives it through the AbstractCallInitiator API, SpecFacilitator   *)
(* through the AbstractCallFacilitator API. AbstractCallInitiator.call is  *)
(* left out: it touches neither the call registry nor any Deferred.        *)
(*                                                                         *)
(* Python values are encoded as follows:                                   *)
(*   - a dict is a function whose DOMAIN is the set of keys;               *)
(*   - an args tuple is a sequence;                                        *)
(*   - an optional keyword argument is a set: {} when it is not supplied   *)
(*     (kwargs.get returns None), {v} when it is supplied with value v;    *)
(*   - a twisted Deferred is an index into the sequence deferreds, which   *)
(*     lists every Deferred created so far in creation order;              *)
(*   - an exception is the name of its class in the field raised, "None"   *)
(*     meaning that the call returned normally.                            *)
(***************************************************************************)
EXTENDS Integers, Sequences, FiniteSets, TLC

VARIABLES
    lastCallId,   \* BaseCallHandler._lastCallId
    activeCalls,  \* BaseCallHandler._activeCalls: callId -> context
    deferreds,    \* every defer.Deferred created by callWithResult
    sent,         \* messages accepted by sendMessage, in order
    invoked,      \* exposed methods invoked by the facilitator, in order
    decoder,      \* BaseProtocol.decoder: "None", "running" or "paused"
    encoder,      \* BaseProtocol.encoder: "None", "running" or "paused"
    connected,    \* FALSE once the transport reported connectionLost
    allocated,    \* history: the ids initiateCall allocated by itself
    issued,       \* history: callId -> Deferred returned by callWithResult
    last,         \* history: the operation performed last and its outcome
    streams,      \* BaseProtocol.streams: streamId -> stream object
    activeStreams,\* BaseProtocol.activeStreams: list of stream ids
    slast,        \* history: the stream operation performed last
    exposed,      \* class -> its __exposed__ dict: {} if absent, else {dict}
    exposedMro,   \* class -> its __exposed_mro__ dict: {} or {dict}
    elast,        \* history: the lookup of exposed methods performed last
    side,         \* "client" for a ClientProtocol, "server" for a ServerProtocol
    state,        \* BaseProtocol.state: "None" until connectionMade
    handshaker,   \* BaseProtocol.handshaker: {} if absent, else {negotiator}
    transport,    \* "open", or "closing" once the connection is being dropped
    hasStreams,   \* the attributes streams and activeStreams exist
    decoded,      \* the data passed to decoder.dataReceived, in order
    negotiated,   \* the data passed to handshaker.dataReceived, in order
    received,     \* history: number of dataReceived calls by the transport
    failed,       \* history: the negotiator reported handshake failure
    clast         \* history: the connection event handled last

\* The variables of the call handlers, of the codecs, of the stream
\* registry, of the classes with exposed methods and of the connection.
callVars == <<lastCallId, activeCalls, deferreds, sent, invoked, allocated,
              issued, last>>

codecVars == <<decoder, encoder, connected>>

streamVars == <<streams, activeStreams, slast>>

exposedVars == <<exposed, exposedMro, elast>>

connVars == <<side, state, handshaker, transport, hasStreams, decoded,
              negotiated, received, failed, clast>>

vars == <<callVars, codecVars, streamVars, exposedVars, connVars>>

\* What the call handlers leave alone, and what the stream registry does.
rpcFrame == <<streamVars, exposedVars, connVars>>

streamFrame == <<callVars, codecVars, exposedVars, connVars>>

exposedFrame == <<callVars, codecVars, streamVars, connVars>>

----------------------------------------------------------------------------
(* Program constants *)

NO_RESULT == 0

RESPONSE_RESULT == "_result"

RESPONSE_ERROR == "_error"

None == "None"

----------------------------------------------------------------------------
(* Bounds of the model *)

\* Largest call id: caps the id counter and the explicit ids tried.
MaxCallId == 2

\* The call ids carried by responses and invocations of the peer and
\* passed to finishCall and discardCall (0 is NO_RESULT).
CallIds == 0 .. MaxCallId

\* The call ids that direct callers of initiateCall supply.
ExplicitIds == 1 .. MaxCallId

\* Contexts stored by direct callers of initiateCall: opaque 1-tuples.
Contexts == {<<"x">>}

\* Remote method names, argument tuples, response tags and payloads.
Names == {"add"}

ArgTuples == {<<2, 3>>}

ResponseNames == {RESPONSE_RESULT, RESPONSE_ERROR, "onStatus"}

Results == {5, 6}

\* Placeholder for "no integer was returned".
NoInt == 0 - 1

\* MAX_STREAMS is 0xffff in the source. The model scales it down so that a
\* full registry is reachable; the code compares against it in the same
\* places.
MAX_STREAMS == 3

\* Longest activeStreams list that registerStream is driven to: the length
\* at which getNextAvailableStreamId gives up.
MaxActive == MAX_STREAMS

\* BaseProtocol.HANDSHAKE and BaseProtocol.STREAM
HANDSHAKE == "handshake"

STREAM == "stream"

\* Number of dataReceived calls that the transport is driven to.
MaxChunks == 4

\* What a negotiator does with the data it is given: wait for more, report
\* success, report failure.
Outcomes == {"more", "success", "failure"}

\* Depth of the class hierarchy whose exposed methods are looked up: class
\* 1 is the base, class c + 1 derives from class c.
MaxDepth == 2

Classes == 1 .. MaxDepth

\* The names methods are exposed under, and the names of the methods.
ExposedNames == {"foo", "bar"}

MethodNames == {"a", "b"}

\* The stream ids tried: one below and one above the valid range.
StreamIds == (0 - 1) .. (MAX_STREAMS + 1)

\* Stream objects are numbered: the control stream of a server, the objects
\* of the callers, and above them the objects that createStream builds.
ControlStream == 0

StreamObjs == {1, 2}

\* The objects that createStream builds.
CreatedObjs == 3 .. (MAX_STREAMS + 4)

----------------------------------------------------------------------------
(* dict helpers *)

\* d[key] = value
DictSet(d, key, value) ==
    [k \in (DOMAIN d) \cup {key} |-> IF k = key THEN value ELSE d[k]]

\* the dict left by d.pop(key, None)
DictPop(d, key) ==
    [k \in (DOMAIN d) \ {key} |-> d[k]]

EmptyDict == [k \in {} |-> <<>>]

----------------------------------------------------------------------------
(* twisted.internet.defer.Deferred, as used by rpc.py *)

NewDeferred == [state |-> "pending", failure |-> None, value |-> <<>>]

\* failure.Failure subclass wrapping the peer's payload
RemoteCallFailed(result) == [failure |-> "RemoteCallFailed", value |-> <<result>>]

\* d.callback(result): fires once, AlreadyCalledError afterwards
callback(defs, d, result) ==
    IF defs[d].state # "pending"
    THEN [raised |-> "AlreadyCalledError", deferreds |-> defs]
    ELSE [raised |-> None,
          deferreds |-> [defs EXCEPT ![d] =
              [state |-> "fulfilled", failure |-> None, value |-> <<result>>]]]

\* d.errback(fail): fires once, AlreadyCalledError afterwards
errback(defs, d, fail) ==
    IF defs[d].state # "pending"
    THEN [raised |-> "AlreadyCalledError", deferreds |-> defs]
    ELSE [raised |-> None,
          deferreds |-> [defs EXCEPT ![d] =
              [state |-> "rejected", failure |-> fail.failure,
               value |-> fail.value]]]

----------------------------------------------------------------------------
(* BaseCallHandler *)

isCallActive(calls, callId) == callId \in DOMAIN calls

getNextCallId(lastId) == lastId + 1

\* found = FALSE stands for the None that dict.get returns
getCallContext(calls, callId) ==
    IF callId \in DOMAIN calls
    THEN [found |-> TRUE, context |-> calls[callId]]
    ELSE [found |-> FALSE, context |-> <<>>]

\* Variant: the allocated id is not stored back into _lastCallId.
initiateCall_NoAdvance(calls, lastId, args, kw) ==
    IF kw = {}
    THEN LET callId == getNextCallId(lastId)
         IN  [raised |-> None, ret |-> callId, lastCallId |-> lastId,
              activeCalls |-> DictSet(calls, callId, args)]
    ELSE LET callId == CHOOSE k \in kw : TRUE
         IN  IF isCallActive(calls, callId)
             THEN [raised |-> "CallFailed", ret |-> NoInt,
                   lastCallId |-> lastId, activeCalls |-> calls]
             ELSE [raised |-> None, ret |-> callId, lastCallId |-> lastId,
                   activeCalls |-> DictSet(calls, callId, args)]

\* Variant: an explicit id is stored without the isCallActive check.
initiateCall_NoCheck(calls, lastId, args, kw) ==
    IF kw = {}
    THEN LET callId == getNextCallId(lastId)
         IN  [raised |-> None, ret |-> callId, lastCallId |-> callId,
              activeCalls |-> DictSet(calls, callId, args)]
    ELSE LET callId == CHOOSE k \in kw : TRUE
         IN  [raised |-> None, ret |-> callId, lastCallId |-> lastId,
              activeCalls |-> DictSet(calls, callId, args)]

\* kw is the callId keyword: {} when absent, {id} when supplied
initiateCall(calls, lastId, args, kw) ==
    IF kw = {}
    THEN LET callId == getNextCallId(lastId)
         IN  [raised |-> None, ret |-> callId, lastCallId |-> callId,
              activeCalls |-> DictSet(calls, callId, args)]
    ELSE LET callId == CHOOSE k \in kw : TRUE
         IN  IF isCallActive(calls, callId)
             THEN [raised |-> "CallFailed", ret |-> NoInt,
                   lastCallId |-> lastId, activeCalls |-> calls]
             ELSE [raised |-> None, ret |-> callId, lastCallId |-> lastId,
                   activeCalls |-> DictSet(calls, callId, args)]

\* found = FALSE stands for the None that dict.pop returns
finishCall(calls, callId) ==
    [found |-> callId \in DOMAIN calls,
     context |-> IF callId \in DOMAIN calls THEN calls[callId] ELSE <<>>,
     activeCalls |-> DictPop(calls, callId)]

discardCall(calls, callId) ==
    [found |-> callId \in DOMAIN calls,
     context |-> IF callId \in DOMAIN calls THEN calls[callId] ELSE <<>>,
     activeCalls |-> DictPop(calls, callId)]

----------------------------------------------------------------------------
(* message.Invoke and IMessageSender.sendMessage *)

Invoke(name, callId, command, args) ==
    [name |-> name, callId |-> callId, command |-> command, args |-> args]

\* sendMessage is implemented by subclasses: it appends the message to the
\* outgoing queue when ok, and raises when not ok.
sendMessage(queue, msg, ok) ==
    IF ok
    THEN [raised |-> None, sent |-> Append(queue, msg)]
    ELSE [raised |-> "SendError", sent |-> queue]

----------------------------------------------------------------------------
(* AbstractCallInitiator *)

callWithResult(calls, lastId, defs, queue, name, args, ok) ==
    LET d    == Len(defs) + 1
        defs1 == Append(defs, NewDeferred)
        i    == initiateCall(calls, lastId, <<d, name, args, None>>, {})
        s    == sendMessage(queue, Invoke(name, i.ret, None, args), ok)
    IN  IF s.raised # None
        THEN [raised |-> s.raised, ret |-> NoInt, callId |-> i.ret,
              lastCallId |-> i.lastCallId,
              activeCalls |-> discardCall(i.activeCalls, i.ret).activeCalls,
              deferreds |-> defs1, sent |-> s.sent]
        ELSE [raised |-> None, ret |-> d, callId |-> i.ret,
              lastCallId |-> i.lastCallId, activeCalls |-> i.activeCalls,
              deferreds |-> defs1, sent |-> s.sent]

\* What handleResponse does with a context that unpacks into four names.
Resolve(defs, d, name, result, calls) ==
    IF name = RESPONSE_RESULT
    THEN LET r == callback(defs, d, result)
         IN  [raised |-> r.raised, activeCalls |-> calls,
              deferreds |-> r.deferreds]
    ELSE IF name = RESPONSE_ERROR
    THEN LET r == errback(defs, d, RemoteCallFailed(result))
         IN  [raised |-> r.raised, activeCalls |-> calls,
              deferreds |-> r.deferreds]
    ELSE [raised |-> None, activeCalls |-> calls, deferreds |-> defs]

\* Variant: an error response fires the callback chain with the payload.
handleResponse_AlwaysCallback(calls, defs, name, callId, result) ==
    LET f == finishCall(calls, callId)
    IN  IF ~f.found
        THEN [raised |-> None, activeCalls |-> f.activeCalls,
              deferreds |-> defs]
        ELSE IF Len(f.context) # 4
        THEN [raised |-> "ValueError", activeCalls |-> f.activeCalls,
              deferreds |-> defs]
        ELSE IF name \in {RESPONSE_RESULT, RESPONSE_ERROR}
        THEN Resolve(defs, f.context[1], RESPONSE_RESULT, result,
                     f.activeCalls)
        ELSE Resolve(defs, f.context[1], name, result, f.activeCalls)

\* Variant: the context is popped without a default, so that an unknown
\* call id raises.
handleResponse_KeyError(calls, defs, name, callId, result) ==
    LET f == finishCall(calls, callId)
    IN  IF ~f.found
        THEN [raised |-> "KeyError", activeCalls |-> f.activeCalls,
              deferreds |-> defs]
        ELSE IF Len(f.context) # 4
        THEN [raised |-> "ValueError", activeCalls |-> f.activeCalls,
              deferreds |-> defs]
        ELSE Resolve(defs, f.context[1], name, result, f.activeCalls)

\* Variant: the context is looked up with getCallContext and the call is
\* left active.
handleResponse_NoPop(calls, defs, name, callId, result) ==
    LET f == getCallContext(calls, callId)
    IN  IF ~f.found
        THEN [raised |-> None, activeCalls |-> calls, deferreds |-> defs]
        ELSE IF Len(f.context) # 4
        THEN [raised |-> "ValueError", activeCalls |-> calls,
              deferreds |-> defs]
        ELSE Resolve(defs, f.context[1], name, result, calls)

\* Variant: a response is matched with the oldest active call instead of
\* the call whose id it carries.
handleResponse_Fifo(calls, defs, name, callId, result) ==
    LET oldest == IF DOMAIN calls = {} THEN callId
                  ELSE CHOOSE k \in DOMAIN calls :
                           \A m \in DOMAIN calls : k <= m
        f == finishCall(calls, oldest)
    IN  IF ~f.found
        THEN [raised |-> None, activeCalls |-> f.activeCalls,
              deferreds |-> defs]
        ELSE IF Len(f.context) # 4
        THEN [raised |-> "ValueError", activeCalls |-> f.activeCalls,
              deferreds |-> defs]
        ELSE Resolve(defs, f.context[1], name, result, f.activeCalls)

handleResponse(calls, defs, name, callId, result) ==
    LET f == finishCall(calls, callId)
    IN  IF ~f.found
        THEN [raised |-> None, activeCalls |-> f.activeCalls,
              deferreds |-> defs]
        ELSE IF Len(f.context) # 4
        THEN \* the stored context does not unpack into four names
             [raised |-> "ValueError", activeCalls |-> f.activeCalls,
              deferreds |-> defs]
        ELSE Resolve(defs, f.context[1], name, result, f.activeCalls)

----------------------------------------------------------------------------
(* AbstractCallFacilitator *)

\* Variant: the call id is not checked against the active calls.
callReceived_NoCheck(calls, name, callId, args) ==
    [raised |-> None, activeCalls |-> calls]

\* The body of callReceived ends after the check of the call id.
callReceived(calls, name, callId, args) ==
    IF isCallActive(calls, callId)
    THEN [raised |-> "CallFailed", activeCalls |-> calls]
    ELSE [raised |-> None, activeCalls |-> calls]

----------------------------------------------------------------------------
(* BaseProtocol.connectionLost *)

pause(codec) == IF codec = None THEN None ELSE "paused"

connectionLost(dec, enc) == [decoder |-> pause(dec), encoder |-> pause(enc)]

----------------------------------------------------------------------------
(* BaseProtocol: interfaces.IStreamManager *)

Range(f) == {f[k] : k \in DOMAIN f}

\* list.sort() on a list of integers
sort(list) == SortSeq(list, LAMBDA a, b : a < b)

\* list.remove(x): drops the first occurrence of x, which is in the list
ListRemove(list, x) ==
    LET first == CHOOSE i \in 1 .. Len(list) :
                     list[i] = x /\ \A j \in 1 .. (i - 1) : list[j] # x
    IN  [j \in 1 .. (Len(list) - 1) |->
            IF j < first THEN list[j] ELSE list[j + 1]]

\* registerStream with the upper bound of the range excluded.
registerStream_Exclusive(strs, active, streamId, stream) ==
    IF streamId = {} \/ \E i \in streamId : i < 0 \/ i >= MAX_STREAMS
    THEN [raised |-> "ValueError", streams |-> strs,
          activeStreams |-> active, streamId |-> {}]
    ELSE LET id == CHOOSE i \in streamId : TRUE
         IN  [raised |-> None, streams |-> DictSet(strs, id, stream),
              activeStreams |-> Append(active, id), streamId |-> {id}]

\* streamId is {} for None and {i} for the integer i. In Python 2 None
\* compares smaller than every integer, so that None < 0 holds. The field
\* streamId of the result is the attribute written on the stream object.
registerStream(strs, active, streamId, stream) ==
    IF streamId = {} \/ \E i \in streamId : i < 0 \/ i > MAX_STREAMS
    THEN [raised |-> "ValueError", streams |-> strs,
          activeStreams |-> active, streamId |-> {}]
    ELSE LET id == CHOOSE i \in streamId : TRUE
         IN  [raised |-> None, streams |-> DictSet(strs, id, stream),
              activeStreams |-> Append(active, id), streamId |-> {id}]

getStream(strs, streamId) ==
    IF streamId \in DOMAIN strs
    THEN [raised |-> None, ret |-> strs[streamId]]
    ELSE [raised |-> "KeyError", ret |-> NoInt]

removeStream(strs, active, streamId) ==
    IF streamId \notin DOMAIN strs
    THEN [raised |-> "IndexError", ret |-> NoInt, streams |-> strs,
          activeStreams |-> active]
    ELSE IF streamId \notin Range(active)
    THEN \* list.remove(x) with x not in the list, after the del
         [raised |-> "ValueError", ret |-> NoInt,
          streams |-> DictPop(strs, streamId), activeStreams |-> active]
    ELSE [raised |-> None, ret |-> strs[streamId],
          streams |-> DictPop(strs, streamId),
          activeStreams |-> ListRemove(active, streamId)]

\* The loop of getNextAvailableStreamId from position pos of the sorted
\* list on (enumerate counts j from 0), with the current value of i.
RECURSIVE ScanStreams(_, _, _)
ScanStreams(sorted, pos, i) ==
    IF pos > Len(sorted)
    THEN i
    ELSE LET j == pos - 1
         IN  IF j # i THEN i ELSE ScanStreams(sorted, pos + 1, i + 1)

\* ret is {} for None and {i} for the integer i; the list is sorted in place
getNextAvailableStreamId(active) ==
    IF Len(active) = MAX_STREAMS
    THEN [ret |-> {}, activeStreams |-> active]
    ELSE LET sorted == sort(active)
         IN  [ret |-> {ScanStreams(sorted, 1, 0)}, activeStreams |-> sorted]

\* ServerProtocol.createStream; stream is the new stream.Stream(self)
createStream(strs, active, stream) ==
    LET n == getNextAvailableStreamId(active)
        r == registerStream(strs, n.activeStreams, n.ret, stream)
    IN  [raised |-> r.raised,
         ret |-> IF r.raised = None THEN n.ret ELSE {},
         streams |-> r.streams, activeStreams |-> r.activeStreams,
         streamId |-> r.streamId]

\* A stream object that nothing refers to yet.
NewStream(strs) ==
    CHOOSE n \in CreatedObjs :
        /\ n \notin Range(strs)
        /\ \A m \in CreatedObjs : m < n => m \in Range(strs)

----------------------------------------------------------------------------
(* BaseProtocol, ClientProtocol, ServerProtocol: the connection *)

\* The protocol object p is the record of its attributes; p.raised is the
\* exception that the call made last let escape. Data is passed around in
\* numbered pieces; the buffer of a negotiator is <<>> or the one piece
\* <<n>>, the end of piece n that lies past the handshake.

\* BaseProtocol.connectionMade; a negotiator starts with an empty buffer
connectionMade(p) ==
    [p EXCEPT !.encoder = None, !.decoder = None, !.state = HANDSHAKE,
              !.handshaker = {[buffer |-> <<>>]}, !.raised = None]

\* self.decoder.dataReceived(data): None has no such attribute
decodeStream(p, data) ==
    IF p.decoder = None
    THEN [p EXCEPT !.raised = "AttributeError"]
    ELSE [p EXCEPT !.decoded = Append(@, data), !.raised = None]

\* BaseProtocol.handshakeSuccess
handshakeSuccess(p) ==
    [p EXCEPT !.state = STREAM, !.hasStreams = TRUE, !.streams = EmptyDict,
              !.activeStreams = <<>>, !.decoder = "running",
              !.encoder = "running", !.handshaker = {}, !.raised = None]

\* ServerProtocol.handshakeSuccess. Its self.dataReceived(b) finds the state
\* STREAM, set by BaseProtocol.handshakeSuccess, and so is decodeStream(b).
\* The name event used in the statements after it is bound nowhere in the
\* module: the first of them raises NameError.
ServerHandshakeSuccess(p) ==
    LET b == (CHOOSE h \in p.handshaker : TRUE).buffer
        q == handshakeSuccess(p)
        r == registerStream(q.streams, q.activeStreams, {0}, ControlStream)
        s == [q EXCEPT !.streams = r.streams,
                       !.activeStreams = r.activeStreams]
        t == IF Len(b) > 0 THEN decodeStream(s, b[1]) ELSE s
    IN  IF t.raised # None THEN t ELSE [t EXCEPT !.raised = "NameError"]

\* handshakeFailure that leaves the transport alone.
handshakeFailure_KeepOpen(p) == [p EXCEPT !.raised = None]

\* BaseProtocol.handshakeFailure: self.transport.loseConnection()
handshakeFailure(p) == [p EXCEPT !.transport = "closing", !.raised = None]

\* handshaker.dataReceived(data): the negotiator consumes the data and
\* either waits for more, or keeps what lies past the handshake in its
\* buffer and reports success, or reports failure, to its observer p. An
\* exception that the observer raises escapes the negotiator or is caught
\* by it.
Negotiate(p, data, outcome, buffer, caught) ==
    LET q == [p EXCEPT !.negotiated = Append(@, data), !.raised = None]
        h == [q EXCEPT !.handshaker = {[buffer |-> buffer]}]
        r == IF outcome = "success"
             THEN IF h.side = "server"
                  THEN ServerHandshakeSuccess(h)
                  ELSE handshakeSuccess(h)
             ELSE IF outcome = "failure"
             THEN handshakeFailure(q)
             ELSE q
    IN  IF caught THEN [r EXCEPT !.raised = None] ELSE r

\* self.handshaker.dataReceived(data): a deleted attribute cannot be read
decodeHandshake(p, data, outcome, buffer, caught) ==
    IF p.handshaker = {}
    THEN [p EXCEPT !.raised = "AttributeError"]
    ELSE Negotiate(p, data, outcome, buffer, caught)

\* dataReceived that takes everything for handshake data.
dataReceived_NoRouting(p, data, outcome, buffer, caught) ==
    decodeHandshake(p, data, outcome, buffer, caught)

\* BaseProtocol.dataReceived
dataReceived(p, data, outcome, buffer, caught) ==
    IF p.state = STREAM
    THEN decodeStream(p, data)
    ELSE IF p.state = HANDSHAKE
    THEN decodeHandshake(p, data, outcome, buffer, caught)
    ELSE [p EXCEPT !.transport = "closing", !.raised = "RuntimeError"]

----------------------------------------------------------------------------
(* expose, getExposedMethods, callExposedMethod *)

\* The __exposed__ dicts that the expose decorator can build in a class
\* body: at least one exposed name, each mapped to a method of that class.
ExposedDicts ==
    UNION {[names -> MethodNames] : names \in (SUBSET ExposedNames) \ {{}}}

\* dict.update
DictUpdate(ret, methods) ==
    [k \in (DOMAIN ret) \cup (DOMAIN methods) |->
        IF k \in DOMAIN methods THEN methods[k] ELSE ret[k]]

\* inspect.getmro(cls) in a chain of single inheritance: cls first
getmro(cls) == [i \in 1 .. cls |-> cls - i + 1]

\* The loop of getExposedMethods from position pos of the mro on.
RECURSIVE UpdateFromMro(_, _, _, _)
UpdateFromMro(decl, mro, pos, ret) ==
    IF pos > Len(mro)
    THEN ret
    ELSE LET methods == decl[mro[pos]]
         IN  UpdateFromMro(decl, mro, pos + 1,
                 IF methods # {}
                 THEN DictUpdate(ret, CHOOSE d \in methods : TRUE)
                 ELSE ret)

getExposedMethods(decl, cache, cls) ==
    IF cache[cls] # {}
    THEN [ret |-> CHOOSE d \in cache[cls] : TRUE, exposedMro |-> cache]
    ELSE LET ret == UpdateFromMro(decl, getmro(cls), 1, EmptyDict)
         IN  [ret |-> ret, exposedMro |-> [cache EXCEPT ![cls] = {ret}]]

\* The classes of the mro of cls that define a method called methodName;
\* a class defines the methods that its __exposed__ dict names.
Defining(decl, cls, methodName) ==
    {c \in 1 .. cls : \E d \in decl[c] : methodName \in Range(d)}

\* getattr(obj, methodName) for an obj of class cls: <<class, name>> of the
\* method found, <<>> for AttributeError.
getattr(decl, cls, methodName) ==
    IF Defining(decl, cls, methodName) = {}
    THEN <<>>
    ELSE <<CHOOSE c \in Defining(decl, cls, methodName) :
               \A d \in Defining(decl, cls, methodName) : d <= c,
           methodName>>

\* method is the method invoked, <<>> if none was
callExposedMethod(decl, cache, cls, name) ==
    LET g == getExposedMethods(decl, cache, cls)
    IN  IF name \notin DOMAIN g.ret \/ getattr(decl, cls, g.ret[name]) = <<>>
        THEN [raised |-> "CallFailed", method |-> <<>>,
              exposedMro |-> g.exposedMro]
        ELSE [raised |-> None, method |-> getattr(decl, cls, g.ret[name]),
              exposedMro |-> g.exposedMro]

----------------------------------------------------------------------------
(* The record kept in last *)

Op(op, name, callId, kw, value, raised, retId, found, retCtx) ==
    [op |-> op, name |-> name, callId |-> callId, kw |-> kw, value |-> value,
     raised |-> raised, retId |-> retId, found |-> found, retCtx |-> retCtx]

NoOp == Op("init", None, NoInt, {}, NoInt, None, NoInt, FALSE, <<>>)

\* The record kept in slast: streamId, ret and stamped are {} for None and
\* {i} for i; stamped is the streamId attribute written on the stream.
StreamOp(op, streamId, stream, raised, ret, retStream, stamped) ==
    [op |-> op, streamId |-> streamId, stream |-> stream, raised |-> raised,
     ret |-> ret, retStream |-> retStream, stamped |-> stamped]

NoStreamOp == StreamOp("init", {}, NoInt, None, {}, NoInt, {})

\* The record kept in elast: ret is {} or {the dict returned}.
ExposedOp(op, cls, name, raised, ret, method) ==
    [op |-> op, cls |-> cls, name |-> name, raised |-> raised, ret |-> ret,
     method |-> method]

NoExposedOp == ExposedOp("init", NoInt, None, None, {}, <<>>)

\* The record kept in clast: state is the state the event found.
ConnOp(op, data, outcome, buffer, raised, st) ==
    [op |-> op, data |-> data, outcome |-> outcome, buffer |-> buffer,
     raised |-> raised, state |-> st]

NoConnOp == ConnOp("init", NoInt, None, <<>>, None, None)

\* A connection of the given side whose handshake has succeeded with
\* nothing left in the buffer of the negotiator.
Streaming(s) ==
    /\ side = s
    /\ state = STREAM
    /\ handshaker = {}
    /\ transport = "open"
    /\ hasStreams = TRUE
    /\ decoded = <<>>
    /\ negotiated = <<>>
    /\ received = 0
    /\ failed = FALSE
    /\ clast = NoConnOp

\* Classes that expose nothing.
NothingExposed ==
    /\ exposed = [c \in Classes |-> {}]
    /\ exposedMro = [c \in Classes |-> {}]
    /\ elast = NoExposedOp

\* The stream registry that BaseProtocol.handshakeSuccess installs.
StreamsInstalled ==
    /\ streams = EmptyDict
    /\ activeStreams = <<>>
    /\ slast = NoStreamOp

----------------------------------------------------------------------------
(* Initial state: a freshly constructed handler on a connection that has   *)
(* completed its handshake, the phase in which RPC messages are exchanged. *)

Init ==
    /\ lastCallId = 0
    /\ activeCalls = EmptyDict
    /\ deferreds = <<>>
    /\ sent = <<>>
    /\ invoked = <<>>
    /\ decoder = "running"
    /\ encoder = "running"
    /\ connected = TRUE
    /\ allocated = <<>>
    /\ issued = EmptyDict
    /\ last = NoOp
    /\ StreamsInstalled
    /\ NothingExposed
    /\ Streaming("client")

----------------------------------------------------------------------------
(* Actions *)

InitiateCall ==
    \E args \in Contexts, kw \in {{}} \cup {{k} : k \in ExplicitIds} :
        LET r == initiateCall(activeCalls, lastCallId, args, kw)
        IN  /\ kw = {} => lastCallId < MaxCallId
            /\ lastCallId' = r.lastCallId
            /\ activeCalls' = r.activeCalls
            /\ allocated' = IF kw = {} THEN Append(allocated, r.ret)
                            ELSE allocated
            /\ last' = Op("initiateCall", None, r.ret, kw, NoInt, r.raised,
                          r.ret, FALSE, args)
            /\ UNCHANGED <<deferreds, sent, invoked, decoder, encoder,
                           connected, issued,
                           rpcFrame>>

FinishCall ==
    \E callId \in CallIds :
        LET r == finishCall(activeCalls, callId)
        IN  /\ activeCalls' = r.activeCalls
            /\ last' = Op("finishCall", None, callId, {}, NoInt, None, NoInt,
                          r.found, r.context)
            /\ UNCHANGED <<lastCallId, deferreds, sent, invoked, decoder,
                           encoder, connected, allocated, issued,
                           rpcFrame>>

DiscardCall ==
    \E callId \in CallIds :
        LET r == discardCall(activeCalls, callId)
        IN  /\ activeCalls' = r.activeCalls
            /\ last' = Op("discardCall", None, callId, {}, NoInt, None, NoInt,
                          r.found, r.context)
            /\ UNCHANGED <<lastCallId, deferreds, sent, invoked, decoder,
                           encoder, connected, allocated, issued,
                           rpcFrame>>

CallWithResult ==
    \E name \in Names, args \in ArgTuples, ok \in BOOLEAN :
        LET r == callWithResult(activeCalls, lastCallId, deferreds, sent,
                                name, args, ok)
        IN  /\ lastCallId < MaxCallId
            /\ lastCallId' = r.lastCallId
            /\ activeCalls' = r.activeCalls
            /\ deferreds' = r.deferreds
            /\ sent' = r.sent
            /\ allocated' = Append(allocated, r.callId)
            /\ issued' = IF r.raised = None
                         THEN DictSet(issued, r.callId, r.ret)
                         ELSE issued
            /\ last' = Op("callWithResult", name, r.callId, {}, NoInt,
                          r.raised, r.ret, FALSE, <<>>)
            /\ UNCHANGED <<invoked, decoder, encoder, connected,
                           rpcFrame>>

\* Responses are decoded from the peer's data: none arrives once the
\* connection is lost.
HandleResponse ==
    \E name \in ResponseNames, callId \in CallIds, result \in Results :
        LET r == handleResponse(activeCalls, deferreds, name, callId, result)
        IN  /\ connected
            /\ activeCalls' = r.activeCalls
            /\ deferreds' = r.deferreds
            /\ last' = Op("handleResponse", name, callId, {}, result,
                          r.raised, NoInt, FALSE, <<>>)
            /\ UNCHANGED <<lastCallId, sent, invoked, decoder, encoder,
                           connected, allocated, issued,
                           rpcFrame>>

CallReceived ==
    \E name \in Names, callId \in CallIds, args \in ArgTuples :
        LET r == callReceived(activeCalls, name, callId, args)
        IN  /\ activeCalls' = r.activeCalls
            /\ last' = Op("callReceived", name, callId, {}, NoInt, r.raised,
                          NoInt, FALSE, <<>>)
            /\ UNCHANGED <<lastCallId, deferreds, sent, invoked, decoder,
                           encoder, connected, allocated, issued,
                           rpcFrame>>

ConnectionLost ==
    LET r == connectionLost(decoder, encoder)
    IN  /\ connected
        /\ connected' = FALSE
        /\ decoder' = r.decoder
        /\ encoder' = r.encoder
        /\ last' = Op("connectionLost", None, NoInt, {}, NoInt, None, NoInt,
                      FALSE, <<>>)
        /\ UNCHANGED <<lastCallId, activeCalls, deferreds, sent, invoked,
                       allocated, issued,
                           rpcFrame>>

----------------------------------------------------------------------------
(* Stream registry *)

\* The call handlers as Init leaves them; the stream specifications do not
\* touch them.
CallsIdle ==
    /\ lastCallId = 0
    /\ activeCalls = EmptyDict
    /\ deferreds = <<>>
    /\ sent = <<>>
    /\ invoked = <<>>
    /\ allocated = <<>>
    /\ issued = EmptyDict
    /\ last = NoOp

\* A connection of either side after BaseProtocol.handshakeSuccess.
InitStreams ==
    /\ CallsIdle
    /\ decoder = "running"
    /\ encoder = "running"
    /\ connected = TRUE
    /\ StreamsInstalled
    /\ NothingExposed
    /\ Streaming("client")

\* A server connection after ServerProtocol.handshakeSuccess registered
\* the control stream under id 0.
InitServer ==
    LET r == registerStream(EmptyDict, <<>>, {0}, ControlStream)
    IN  /\ CallsIdle
        /\ decoder = "running"
        /\ encoder = "running"
        /\ connected = TRUE
        /\ streams = r.streams
        /\ activeStreams = r.activeStreams
        /\ slast = NoStreamOp
        /\ NothingExposed
        /\ Streaming("server")

RegisterStream ==
    \E streamId \in StreamIds, stream \in StreamObjs :
        LET r == registerStream(streams, activeStreams, {streamId}, stream)
        IN  /\ Len(activeStreams) < MaxActive
            /\ streams' = r.streams
            /\ activeStreams' = r.activeStreams
            /\ slast' = StreamOp("registerStream", {streamId}, stream,
                                 r.raised, {}, NoInt, r.streamId)
            /\ UNCHANGED streamFrame

GetStream ==
    \E streamId \in StreamIds :
        LET r == getStream(streams, streamId)
        IN  /\ slast' = StreamOp("getStream", {streamId}, NoInt, r.raised,
                                 {}, r.ret, {})
            /\ UNCHANGED <<streams, activeStreams, streamFrame>>

RemoveStream ==
    \E streamId \in StreamIds :
        LET r == removeStream(streams, activeStreams, streamId)
        IN  /\ streams' = r.streams
            /\ activeStreams' = r.activeStreams
            /\ slast' = StreamOp("removeStream", {streamId}, NoInt,
                                 r.raised, {}, r.ret, {})
            /\ UNCHANGED streamFrame

GetNextAvailableStreamId ==
    LET r == getNextAvailableStreamId(activeStreams)
    IN  /\ activeStreams' = r.activeStreams
        /\ slast' = StreamOp("getNextAvailableStreamId", {}, NoInt, None,
                             r.ret, NoInt, {})
        /\ UNCHANGED <<streams, streamFrame>>

CreateStream ==
    LET stream == NewStream(streams)
        r == createStream(streams, activeStreams, stream)
    IN  /\ streams' = r.streams
        /\ activeStreams' = r.activeStreams
        /\ slast' = StreamOp("createStream", {}, stream, r.raised, r.ret,
                             NoInt, r.streamId)
        /\ UNCHANGED streamFrame

----------------------------------------------------------------------------
(* Exposed methods *)

\* The class bodies have run: every class has the __exposed__ dict that its
\* decorators built, or none, and nothing is cached yet.
InitExposed ==
    /\ CallsIdle
    /\ decoder = "running"
    /\ encoder = "running"
    /\ connected = TRUE
    /\ StreamsInstalled
    /\ exposed \in [Classes -> {{}} \cup {{d} : d \in ExposedDicts}]
    /\ exposedMro = [c \in Classes |-> {}]
    /\ elast = NoExposedOp
    /\ Streaming("client")

GetExposedMethods ==
    \E cls \in Classes :
        LET r == getExposedMethods(exposed, exposedMro, cls)
        IN  /\ exposedMro' = r.exposedMro
            /\ elast' = ExposedOp("getExposedMethods", cls, None, None,
                                  {r.ret}, <<>>)
            /\ UNCHANGED <<exposed, exposedFrame>>

CallExposedMethod ==
    \E cls \in Classes, name \in ExposedNames :
        LET r == callExposedMethod(exposed, exposedMro, cls, name)
        IN  /\ exposedMro' = r.exposedMro
            /\ elast' = ExposedOp("callExposedMethod", cls, name, r.raised,
                                  {}, r.method)
            /\ UNCHANGED <<exposed, exposedFrame>>

----------------------------------------------------------------------------
(* Connection *)

\* The protocol object as the variables hold it.
Protocol ==
    [side |-> side, state |-> state, handshaker |-> handshaker,
     transport |-> transport, hasStreams |-> hasStreams,
     streams |-> streams, activeStreams |-> activeStreams,
     decoder |-> decoder, encoder |-> encoder, decoded |-> decoded,
     negotiated |-> negotiated, raised |-> None]

\* The variables hold the protocol object p.
Becomes(p) ==
    /\ side' = p.side
    /\ state' = p.state
    /\ handshaker' = p.handshaker
    /\ hasStreams' = p.hasStreams
    /\ streams' = p.streams
    /\ activeStreams' = p.activeStreams
    /\ decoder' = p.decoder
    /\ encoder' = p.encoder
    /\ decoded' = p.decoded
    /\ negotiated' = p.negotiated

\* A protocol of either side that its factory has just built.
InitConn ==
    /\ CallsIdle
    /\ NothingExposed
    /\ side \in {"client", "server"}
    /\ state = None
    /\ handshaker = {}
    /\ transport = "open"
    /\ hasStreams = FALSE
    /\ streams = EmptyDict
    /\ activeStreams = <<>>
    /\ slast = NoStreamOp
    /\ decoder = None
    /\ encoder = None
    /\ connected = TRUE
    /\ decoded = <<>>
    /\ negotiated = <<>>
    /\ received = 0
    /\ failed = FALSE
    /\ clast = NoConnOp

ConnectionMade ==
    LET p == connectionMade(Protocol)
    IN  /\ connected
        /\ state = None
        /\ Becomes(p)
        /\ clast' = ConnOp("connectionMade", NoInt, None, <<>>, p.raised,
                           state)
        /\ UNCHANGED <<transport, received, failed, connected, slast,
                       callVars, exposedVars>>

\* The transport delivers the next piece of data. It delivers none before
\* connectionMade and none once it has been told to lose the connection,
\* and it drops the connection when dataReceived lets an exception escape.
DataReceived ==
    \E outcome \in Outcomes, tail \in BOOLEAN, caught \in BOOLEAN :
        LET data == received + 1
            buffer == IF tail THEN <<data>> ELSE <<>>
            p == dataReceived(Protocol, data, outcome, buffer, caught)
        IN  /\ connected
            /\ transport = "open"
            /\ state # None
            /\ received < MaxChunks
            /\ state = STREAM => (outcome = "more" /\ ~tail)
            /\ outcome # "success" => ~tail
            /\ caught => (side = "server" /\ outcome = "success")
            /\ Becomes(p)
            /\ transport' = IF p.raised # None THEN "closing"
                            ELSE p.transport
            /\ received' = data
            /\ failed' = (failed \/ (state = HANDSHAKE /\ outcome = "failure"))
            /\ clast' = ConnOp("dataReceived", data,
                               IF state = HANDSHAKE THEN outcome ELSE None,
                               buffer, p.raised, state)
            /\ UNCHANGED <<connected, slast, callVars, exposedVars>>

----------------------------------------------------------------------------
(* Specifications *)

\* A connection side that issues calls (AbstractCallInitiator). The handler
\* lives and dies with its connection: nothing is done after connectionLost.
Next ==
    \/ connected /\ InitiateCall
    \/ connected /\ FinishCall
    \/ connected /\ DiscardCall
    \/ connected /\ CallWithResult
    \/ HandleResponse
    \/ ConnectionLost

Spec == Init /\ [][Next]_vars

\* A connection side that receives calls (AbstractCallFacilitator).
NextFacilitator ==
    \/ InitiateCall
    \/ FinishCall
    \/ DiscardCall
    \/ CallReceived

SpecFacilitator == Init /\ [][NextFacilitator]_vars

\* One call initiator that issues calls with callWithResult and is handed
\* the responses of its peer.
NextInitiator ==
    \/ CallWithResult
    \/ HandleResponse

SpecInitiator == Init /\ [][NextInitiator]_vars

\* The stream registry of a connection, driven through IStreamManager.
NextStreams ==
    \/ RegisterStream
    \/ GetStream
    \/ RemoveStream
    \/ GetNextAvailableStreamId

SpecStreams == InitStreams /\ [][NextStreams]_vars

\* The stream registry of a server connection, driven by createStream and
\* removeStream only.
NextServer ==
    \/ CreateStream
    \/ GetStream
    \/ RemoveStream
    \/ GetNextAvailableStreamId

SpecServer == InitServer /\ [][NextServer]_vars

\* A connection from its construction on, driven by its transport.
NextConn ==
    \/ ConnectionMade
    \/ DataReceived
    \/ ConnectionLost

SpecConn == InitConn /\ [][NextConn]_vars

\* Lookups of exposed methods on the classes of one hierarchy.
NextExposed ==
    \/ GetExposedMethods
    \/ CallExposedMethod

SpecExposed == InitExposed /\ [][NextExposed]_vars

----------------------------------------------------------------------------
(* Shorthands used by the properties *)

\* The Deferred that callWithResult returned for callId.
Handle(callId) == issued[callId]

\* The call that callWithResult started under callId is still active.
IssuedCallActive(calls, callId) ==
    /\ callId \in DOMAIN issued
    /\ callId \in DOMAIN calls
    /\ Len(calls[callId]) = 4
    /\ calls[callId][1] = issued[callId]

Fulfilled(result) ==
    [state |-> "fulfilled", failure |-> None, value |-> <<result>>]

Rejected(result) ==
    [state |-> "rejected", failure |-> "RemoteCallFailed",
     value |-> <<result>>]

----------------------------------------------------------------------------
(* Properties *)

\* C1: the ids that initiateCall allocates when no callId is supplied are
\* strictly increasing in call order, hence never returned twice, whatever
\* was initiated explicitly, finished or discarded in between.
C1_AllocatedIdsIncrease ==
    \A i, j \in 1 .. Len(allocated) : i < j => allocated[i] < allocated[j]

\* Two ids were allocated and the first call was finished or discarded
\* before the second allocation returned.
C1_Witness ==
    /\ Len(allocated) >= 2
    /\ last.op \in {"initiateCall", "callWithResult"}
    /\ last.kw = {}
    /\ last.callId = allocated[Len(allocated)]
    /\ allocated[1] \notin DOMAIN activeCalls

\* C2: initiateCall with an explicit callId that is active raises CallFailed
\* and leaves the stored context and the counter unchanged; with an explicit
\* callId that is not active it returns that id, which is then active with
\* the supplied context.
C2_ExplicitInitiate ==
    [][(last'.op = "initiateCall" /\ last'.kw # {}) =>
          LET callId == CHOOSE k \in last'.kw : TRUE
          IN  IF callId \in DOMAIN activeCalls
              THEN /\ last'.raised = "CallFailed"
                   /\ activeCalls' = activeCalls
                   /\ lastCallId' = lastCallId
              ELSE /\ last'.raised = None
                   /\ last'.retId = callId
                   /\ callId \in DOMAIN activeCalls'
                   /\ activeCalls'[callId] = last'.retCtx]_vars

\* An explicit id was refused while a call started by callWithResult held it.
C2_Witness ==
    /\ last.op = "initiateCall"
    /\ last.kw # {}
    /\ last.raised = "CallFailed"
    /\ \E callId \in last.kw : IssuedCallActive(activeCalls, callId)

\* C3: for a call started with callWithResult and still active, a "_result"
\* response with its id fulfils the handle callWithResult returned with the
\* supplied value, an "_error" response rejects it with RemoteCallFailed
\* wrapping the supplied payload, and the call is not active afterwards.
C3_ResponseResolvesHandle ==
    [][(/\ last'.op = "handleResponse"
        /\ IssuedCallActive(activeCalls, last'.callId)
        /\ last'.name \in {RESPONSE_RESULT, RESPONSE_ERROR}) =>
          /\ last'.raised = None
          /\ deferreds'[Handle(last'.callId)] =
                 IF last'.name = RESPONSE_RESULT
                 THEN Fulfilled(last'.value)
                 ELSE Rejected(last'.value)
          /\ last'.callId \notin DOMAIN activeCalls']_vars

\* An "_error" response has just rejected the handle of its call.
C3_Witness ==
    /\ last.op = "handleResponse"
    /\ last.name = RESPONSE_ERROR
    /\ last.raised = None
    /\ last.callId \in DOMAIN issued
    /\ deferreds[Handle(last.callId)] = Rejected(last.value)

\* C4: handleResponse with a callId that has no active call does not raise,
\* resolves or rejects no handle and leaves the active calls, their
\* contexts and the id counter as they were, for every response tag.
C4_UnmatchedResponseIgnored ==
    [][(last'.op = "handleResponse"
        /\ last'.callId \notin DOMAIN activeCalls) =>
          /\ last'.raised = None
          /\ deferreds' = deferreds
          /\ activeCalls' = activeCalls
          /\ lastCallId' = lastCallId]_vars

\* A "_result" response arrived for a call of callWithResult that had been
\* finished or discarded: its handle is still pending.
C4_Witness ==
    /\ last.op = "handleResponse"
    /\ last.name = RESPONSE_RESULT
    /\ last.raised = None
    /\ last.callId \in DOMAIN issued
    /\ deferreds[Handle(last.callId)].state = "pending"

\* C5: when sendMessage fails inside callWithResult, the error reaches the
\* caller, no handle is returned and the active calls and their contexts
\* are exactly what they were before the call.
C5_SendFailureRollsBack ==
    [][(last'.op = "callWithResult" /\ last'.raised # None) =>
          /\ last'.raised = "SendError"
          /\ last'.retId = NoInt
          /\ activeCalls' = activeCalls]_vars

\* C6: after connection loss no call started by callWithResult remains
\* active and no handle that callWithResult returned is still pending: the
\* outstanding ones have been rejected.
C6_ConnectionLossDrains ==
    last.op = "connectionLost" =>
        \A callId \in DOMAIN issued :
            /\ ~IssuedCallActive(activeCalls, callId)
            /\ deferreds[Handle(callId)].state # "pending"

\* C7: a handle is fulfilled or rejected at most once: a resolved Deferred
\* never changes again, handleResponse never fires a Deferred a second time
\* (AlreadyCalledError), and a response for an id whose handle is resolved
\* changes no Deferred.
C7_ResolvesAtMostOnce ==
    [][/\ \A d \in 1 .. Len(deferreds) :
              deferreds[d].state # "pending" => deferreds'[d] = deferreds[d]
       /\ last'.op = "handleResponse" => last'.raised # "AlreadyCalledError"
       /\ (/\ last'.op = "handleResponse"
           /\ last'.callId \in DOMAIN issued
           /\ deferreds[Handle(last'.callId)].state # "pending") =>
              deferreds' = deferreds]_vars

\* A second response, with the other tag, arrived for an id whose handle
\* was already fulfilled, and the handle is still fulfilled.
C7_Witness ==
    /\ last.op = "handleResponse"
    /\ last.name = RESPONSE_ERROR
    /\ last.raised = None
    /\ last.callId \in DOMAIN issued
    /\ deferreds[Handle(last.callId)].state = "fulfilled"

\* C8: a response resolves the handle that callWithResult returned for the
\* call id it carries and no other: every other Deferred is unchanged and
\* every other call stays active with its context, whatever the order in
\* which the calls were sent.
C8_MatchedByCallId ==
    [][(/\ last'.op = "handleResponse"
        /\ IssuedCallActive(activeCalls, last'.callId)) =>
          /\ last'.name \in {RESPONSE_RESULT, RESPONSE_ERROR} =>
                 deferreds'[Handle(last'.callId)].state # "pending"
          /\ \A d \in 1 .. Len(deferreds) :
                 d # Handle(last'.callId) => deferreds'[d] = deferreds[d]
          /\ \A other \in DOMAIN activeCalls :
                 other # last'.callId =>
                     /\ other \in DOMAIN activeCalls'
                     /\ activeCalls'[other] = activeCalls[other]]_vars

\* Two calls of callWithResult were outstanding and the response to the
\* later one arrived first: its handle is resolved, the earlier call is
\* still active and its handle pending.
C8_Witness ==
    /\ last.op = "handleResponse"
    /\ \E a, b \in DOMAIN issued :
           /\ a < b
           /\ last.callId = b
           /\ deferreds[Handle(b)].state # "pending"
           /\ IssuedCallActive(activeCalls, a)
           /\ deferreds[Handle(a)].state = "pending"

\* C9: callReceived with a callId that is active raises CallFailed, invokes
\* no exposed method, sends no message and leaves the active calls and
\* their contexts as they were.
C9_ActiveIdRejected ==
    [][(last'.op = "callReceived" /\ last'.callId \in DOMAIN activeCalls) =>
          /\ last'.raised = "CallFailed"
          /\ invoked' = invoked
          /\ sent' = sent
          /\ activeCalls' = activeCalls]_vars

\* An invocation was refused and the call holding its id is still active.
C9_Witness ==
    /\ last.op = "callReceived"
    /\ last.raised = "CallFailed"
    /\ last.callId \in DOMAIN activeCalls

\* C10: callReceived with a callId that is not active invokes the exposed
\* method of that name and, unless callId is NO_RESULT, sends exactly one
\* response with the same callId, tagged "_result" or "_error"; for
\* NO_RESULT it sends nothing.
C10_DispatchAndRespond ==
    [][(last'.op = "callReceived"
        /\ last'.callId \notin DOMAIN activeCalls) =>
          /\ last'.raised = None
          /\ Len(invoked') = Len(invoked) + 1
          /\ invoked'[Len(invoked')] = last'.name
          /\ IF last'.callId = NO_RESULT
             THEN sent' = sent
             ELSE /\ Len(sent') = Len(sent) + 1
                  /\ sent'[Len(sent')].callId = last'.callId
                  /\ sent'[Len(sent')].name \in
                         {RESPONSE_RESULT, RESPONSE_ERROR}]_vars

----------------------------------------------------------------------------
(* Claims about the stream registry *)

\* The argument of the stream operation performed last.
Arg(op) == CHOOSE i \in op.streamId : TRUE

\* The ids of [0, MAX_STREAMS] that are not active.
FreeIds(active) == (0 .. MAX_STREAMS) \ Range(active)

SmallestFree(active) ==
    CHOOSE i \in FreeIds(active) : \A j \in FreeIds(active) : i <= j

\* The list of active ids names every registered id once.
Consistent(strs, active) ==
    /\ Range(active) = DOMAIN strs
    /\ \A i, j \in 1 .. Len(active) : active[i] = active[j] => i = j

\* C11: registerStream(id, stream) fails with a range error and changes
\* nothing when id < 0 or id > MAX_STREAMS; for every id of [0, MAX_STREAMS]
\* it succeeds, stamps the stream with that id, and getStream(id) then
\* returns that same stream object.
C11_RegisterStreamRange ==
    [][slast'.op = "registerStream" =>
          IF Arg(slast') < 0 \/ Arg(slast') > MAX_STREAMS
          THEN /\ slast'.raised = "ValueError"
               /\ streams' = streams
               /\ activeStreams' = activeStreams
               /\ slast'.stamped = {}
          ELSE /\ slast'.raised = None
               /\ slast'.stamped = slast'.streamId
               /\ Arg(slast') \in Range(activeStreams')
               /\ getStream(streams', Arg(slast')) =
                      [raised |-> None, ret |-> slast'.stream]]_vars

\* The largest id was registered over another stream object; one step
\* earlier or later the ids outside the range are refused.
C11_Witness ==
    /\ slast.op = "registerStream"
    /\ slast.raised = None
    /\ slast.streamId = {MAX_STREAMS}
    /\ slast.stamped = {MAX_STREAMS}
    /\ streams[MAX_STREAMS] = slast.stream
    /\ Len(activeStreams) > 1

\* C12: with fewer than the maximum number of streams active,
\* getNextAvailableStreamId returns the smallest non-negative integer that
\* is not an active stream id.
C12_SmallestFreeId ==
    [][(/\ slast'.op = "getNextAvailableStreamId"
        /\ Consistent(streams, activeStreams)
        /\ Len(activeStreams) < MAX_STREAMS) =>
          slast'.ret = {SmallestFree(activeStreams)}]_vars

\* C13: getNextAvailableStreamId returns none exactly when every id of
\* [0, MAX_STREAMS] is active, and never an integer above MAX_STREAMS.
C13_NoCapacitySignal ==
    [][(/\ slast'.op = "getNextAvailableStreamId"
        /\ Consistent(streams, activeStreams)) =>
          /\ slast'.ret = {} <=> FreeIds(activeStreams) = {}
          /\ \A i \in slast'.ret : i <= MAX_STREAMS]_vars

\* C14: removeStream(id) of an unregistered id fails with the unknown
\* stream error and changes nothing; of a registered id it returns the
\* stream registered under it, removes the id from the mapping and from the
\* active ids, getStream(id) then fails, and the id, once it is the lowest
\* free one, is what getNextAvailableStreamId returns.
C14_RemoveStream ==
    [][(slast'.op = "removeStream" /\ Consistent(streams, activeStreams)) =>
          IF Arg(slast') \notin DOMAIN streams
          THEN /\ slast'.raised = "IndexError"
               /\ streams' = streams
               /\ activeStreams' = activeStreams
          ELSE /\ slast'.raised = None
               /\ slast'.retStream = streams[Arg(slast')]
               /\ Arg(slast') \notin DOMAIN streams'
               /\ Arg(slast') \notin Range(activeStreams')
               /\ getStream(streams', Arg(slast')).raised = "KeyError"
               /\ Arg(slast') = SmallestFree(activeStreams') =>
                      getNextAvailableStreamId(activeStreams').ret =
                          slast'.streamId]_vars

\* C20: createStream on a server connection never registers its new stream
\* under an id that is already registered: the id it returns was not active
\* before the call and every stream registered before the call is still
\* what getStream returns under its id.
C20_CreateStreamFreshId ==
    [][(slast'.op = "createStream" /\ slast'.raised = None) =>
          /\ slast'.ret \cap (DOMAIN streams \cup Range(activeStreams)) = {}
          /\ \A id \in DOMAIN streams :
                 getStream(streams', id) =
                     [raised |-> None, ret |-> streams[id]]]_vars

----------------------------------------------------------------------------
(* Claims about call ids *)

\* C19: an initiateCall without an explicit callId never returns an id that
\* is active at the moment of the call and never replaces the context of an
\* active call.
C19_ImplicitIdNotActive ==
    [][(last'.op = "initiateCall" /\ last'.kw = {}) =>
          /\ ~isCallActive(activeCalls, last'.retId)
          /\ \A callId \in DOMAIN activeCalls :
                 /\ callId \in DOMAIN activeCalls'
                 /\ activeCalls'[callId] = activeCalls[callId]]_vars

----------------------------------------------------------------------------
(* Claims about exposed methods *)

\* The classes of the mro of cls that register the exposed name.
Registering(cls, name) ==
    {c \in 1 .. cls : \E d \in exposed[c] : name \in DOMAIN d}

\* The method name that the most derived of them registered under name.
MostDerived(cls, name) ==
    LET c == CHOOSE x \in Registering(cls, name) :
                 \A y \in Registering(cls, name) : y <= x
    IN  (CHOOSE d \in exposed[c] : TRUE)[name]

\* C15: when the ancestry of a class registers an exposed name at more than
\* one level, getExposedMethods maps the name to the method registered by
\* the most derived class, and callExposedMethod invokes that method.
C15_MostDerivedWins ==
    [][\A name \in ExposedNames :
          Cardinality(Registering(elast'.cls, name)) > 1 =>
              /\ elast'.op = "getExposedMethods" =>
                     \A d \in elast'.ret :
                         d[name] = MostDerived(elast'.cls, name)
              /\ (elast'.op = "callExposedMethod" /\ elast'.name = name) =>
                     elast'.method =
                         getattr(exposed, elast'.cls,
                                 MostDerived(elast'.cls, name))]_vars

----------------------------------------------------------------------------
(* Claims about the connection *)

\* The step is a dataReceived of the transport.
Delivers == clast'.op = "dataReceived" /\ received' # received

\* C16: the connection enters HANDSHAKE on connectionMade and STREAM only
\* through a handshake success, never back; data received in HANDSHAKE goes
\* to the negotiator and not to the decoder, where decodeStream fails; data
\* received after the success goes to the decoder and not to the
\* negotiator, which is gone.
C16_StateMachine ==
    [][/\ state' # state =>
              \/ /\ state = None
                 /\ state' = HANDSHAKE
                 /\ clast'.op = "connectionMade"
              \/ /\ state = HANDSHAKE
                 /\ state' = STREAM
                 /\ Delivers
                 /\ clast'.outcome = "success"
       /\ (Delivers /\ state = HANDSHAKE) =>
              /\ negotiated' = Append(negotiated, clast'.data)
              /\ clast'.outcome # "success" => decoded' = decoded
              /\ decodeStream(Protocol, clast'.data).raised =
                     "AttributeError"
       /\ (Delivers /\ state = STREAM) =>
              /\ decoded' = Append(decoded, clast'.data)
              /\ negotiated' = negotiated
              /\ handshaker = {}
              /\ decodeHandshake(Protocol, clast'.data, "more", <<>>,
                                 FALSE).raised = "AttributeError"]_vars

\* Data was delivered in both phases: first to the negotiator, then, the
\* handshake done, to the decoder.
C16_Witness ==
    /\ state = STREAM
    /\ clast.op = "dataReceived"
    /\ clast.state = STREAM
    /\ clast.raised = None
    /\ handshaker = {}
    /\ Len(negotiated) > 1
    /\ clast.data \in Range(decoded)

C18_TrailingBytesReplayed ==
    [][(/\ Delivers
        /\ state = HANDSHAKE
        /\ clast'.outcome = "success"
        /\ clast'.buffer # <<>>) =>
          /\ decoded' = clast'.buffer
          /\ state' = STREAM
          /\ decoder' # None
          /\ hasStreams'
          /\ side = "server" => 0 \in DOMAIN streams'
          /\ negotiated' = Append(negotiated, clast'.data)]_vars

----------------------------------------------------------------------------
(* Claims about the registries as a whole *)

\* C21: in every state that registerStream, removeStream and
\* getNextAvailableStreamId reach, the list of active stream ids has no
\* duplicates and holds exactly the keys of the stream mapping, all of
\* them within [0, MAX_STREAMS].
C21_ActiveIdsMatchMapping ==
    /\ \A i, j \in 1 .. Len(activeStreams) :
           activeStreams[i] = activeStreams[j] => i = j
    /\ Range(activeStreams) = DOMAIN streams
    /\ Range(activeStreams) \subseteq 0 .. MAX_STREAMS

\* C22: after callWithResult and handleResponse operations on one
\* initiator, a handle that callWithResult returned is pending exactly when
\* its call id is still active; a response with a tag other than _result
\* and _error leaves the call where it was.
C22_PendingIffActive ==
    \A callId \in DOMAIN issued :
        deferreds[Handle(callId)].state = "pending" <=>
            IssuedCallActive(activeCalls, callId)

====
